---- MODULE Spec2Model ----
(***************************************************************************)
(* State-machine model of the cost-aware AI gateway of codora:             *)
(*   CostTracker  (usage ledger, budget gate)   src/src/ai/CostTracker.ts  *)
(*   CacheManager (response cache, LRU + TTL)   src/src/ai/CostTracker.ts  *)
(*   AIManager    (tier selection, gateway)     src/src/ai/AIManager.ts    *)
(*                                                                         *)
(* Time is Date.now() on a coarse clock.  Money is counted in units of     *)
(* $0.00025 and tokens in units of 1000, so that the per-1K price table of  *)
(* the providers stays integral.  Complexity scores are hundredths.        *)
(***************************************************************************)
EXTENDS Integers, Sequences, FiniteSets, TLC

VARIABLES
    now,            \* Date.now()
    usageHistory,   \* CostTracker.usageHistory
    budgetLimit,    \* CostTracker.budgetLimit (read once, in the constructor)
    cache,          \* CacheManager.cache: the Map, as a sequence in insertion order
    stats,          \* CacheManager.stats: [hits, misses]
    globalState,    \* context.globalState: what has been persisted
    settings,       \* vscode.workspace.getConfiguration('codora'): the user's settings
    configuration,  \* AIManager.configuration
    providers,      \* AIManager.providers: the Map, as a sequence in insertion order
    efficiencyProvider,     \* AIManager.efficiencyProvider
    performanceProvider,    \* AIManager.performanceProvider
    currentProvider,        \* AIManager.currentProvider
    inflight,       \* provider calls awaiting their response, oldest first
    appended,       \* history variable: every record pushed since the last reset
    started,        \* history variable: the number of calls made so far
    written,        \* history variable: per key, the content and time of its latest set
    calls,          \* history variable: what the latest gateway call or response called, in order
    last            \* what the latest get or generateExplanation handed to its caller

ledgerVars == <<usageHistory, budgetLimit, appended>>
cacheVars == <<cache, stats, written>>
managerVars == <<configuration, providers, efficiencyProvider, performanceProvider,
                 currentProvider>>
vars == <<now, settings, ledgerVars, cacheVars, globalState, managerVars, inflight,
          started, last, calls>>

----------------------------------------------------------------------------
(* Constants of the program.  Durations and capacities are scaled down,   *)
(* keeping their order (1 day < 7 days < 30 days < 180 days): the clock is  *)
(* coarse, and the history and the cache hold a few entries, not thousands.*)

dayMs == 1          \* 24 * 60 * 60 * 1000
weekMs == 2         \* 7 * 24 * 60 * 60 * 1000
monthMs == 3        \* 30 * 24 * 60 * 60 * 1000
sixMonthsMs == 4    \* cleanupOldRecords: 180 * 24 * 60 * 60 * 1000
maxRecords == 3     \* saveUsageHistory: const maxRecords = 10000
maxCacheSize == 2   \* CacheManager.maxCacheSize = 1000

(* Bounds of the model.                                                    *)

MaxClock == 3       \* the clock runs 0..MaxClock
MaxCost == 2        \* a direct recordUsage bills 0..MaxCost
MaxBudget == 3      \* aiService.budgetLimit is drawn from 0..MaxBudget
MaxCacheCalls == 4  \* get and set are called MaxCacheCalls times on the cache alone
MaxRecorded == 4    \* direct recordUsage calls between two resets
MaxCalls == 2       \* generateExplanation is called MaxCalls times
MaxInflight == 2    \* provider calls in flight at once
MaxTokens == 1      \* a response reports none or MaxTokens thousand tokens
MaxKeyLen == 2      \* createCacheKey is applied to texts of at most MaxKeyLen characters
MaxPersisted == 2   \* records of earlier sessions found in storage at start
MaxNest == 6        \* a classified code opens 0..MaxNest braces in a row
MaxMatches == 6     \* a classified code holds none or MaxMatches matches of a pattern

maxAge == weekMs    \* CacheManager.maxAge: 7 days
budgetPeriod == "monthly"

Contents == {"", "a"}       \* response texts; a provider may return the empty text
NULL == << >>               \* null / undefined
Some(v) == <<v>>

----------------------------------------------------------------------------
(* CostTracker                                                             *)

RECURSIVE SumCost(_)
SumCost(records) ==
    IF records = << >> THEN 0
    ELSE Head(records).cost + SumCost(Tail(records))

\* periodStartOf taking the daily window whatever the period
periodStartOf_daily(period, t) == t - dayMs

periodStartOf(period, t) ==
    CASE period = "daily" -> t - dayMs
      [] period = "weekly" -> t - weekMs
      [] OTHER -> t - monthMs

\* InPeriod with the start of the window counted in (>=)
InPeriod_closed(r, period, t) == r.timestamp >= periodStartOf(period, t)

InPeriod(r, period, t) == r.timestamp > periodStartOf(period, t)

\* getCurrentPeriodCost over the whole history, whatever the period
getCurrentPeriodCost_allTime(history, period, t) == SumCost(history)

getCurrentPeriodCost(history, period, t) ==
    SumCost(SelectSeq(history, LAMBDA r : InPeriod(r, period, t)))

\* canMakeRequest letting a cost equal to the limit pass (<=)
canMakeRequest_upTo(history, limit, t) ==
    getCurrentPeriodCost(history, budgetPeriod, t) <= limit

canMakeRequest(history, limit, t) ==
    getCurrentPeriodCost(history, budgetPeriod, t) < limit

\* getStats().budgetRemaining
budgetRemaining(history, limit, t) ==
    LET left == limit - getCurrentPeriodCost(history, budgetPeriod, t)
    IN  IF left > 0 THEN left ELSE 0

\* saveUsageHistory keeping the oldest maxRecords records
saveUsageHistory_oldest(history) ==
    IF Len(history) > maxRecords THEN SubSeq(history, 1, maxRecords) ELSE history

\* saveUsageHistory: the history it leaves in memory (and persists)
saveUsageHistory(history) ==
    IF Len(history) > maxRecords
    THEN SubSeq(history, Len(history) - maxRecords + 1, Len(history))
    ELSE history

UsageRecord(t, cost, tokens, provider, model) ==
    [timestamp |-> t, cost |-> cost, tokens |-> tokens, provider |-> provider,
     model |-> model, requestType |-> "explanation"]

\* recordUsage pushing the record twice
recordUsage_twice(history, t, cost, tokens, provider, model) ==
    saveUsageHistory(Append(Append(history,
                                   UsageRecord(t, cost, tokens, provider, model)),
                            UsageRecord(t, cost, tokens, provider, model)))

\* recordUsage: push, then saveUsageHistory
recordUsage(history, t, cost, tokens, provider, model) ==
    saveUsageHistory(Append(history, UsageRecord(t, cost, tokens, provider, model)))

\* loadUsageHistory: the array found in storage
loadUsageHistory(storage) == storage.usageHistory

\* cleanupOldRecords keeping the records of exactly 180 days too
cleanupOldRecords_inclusive(history, t) ==
    LET kept == SelectSeq(history, LAMBDA r : r.timestamp >= t - sixMonthsMs)
    IN  IF Len(history) - Len(kept) > 0
        THEN [usageHistory |-> saveUsageHistory(kept), saved |-> TRUE]
        ELSE [usageHistory |-> kept, saved |-> FALSE]

\* cleanupOldRecords: the history it leaves, and whether it saved it
cleanupOldRecords(history, t) ==
    LET kept == SelectSeq(history, LAMBDA r : r.timestamp > t - sixMonthsMs)
    IN  IF Len(history) - Len(kept) > 0
        THEN [usageHistory |-> saveUsageHistory(kept), saved |-> TRUE]
        ELSE [usageHistory |-> kept, saved |-> FALSE]

----------------------------------------------------------------------------
(* CacheManager                                                            *)

CacheEntry(key, content, t) ==
    [key |-> key, content |-> content, timestamp |-> t, accessCount |-> 1,
     lastAccessed |-> t]

\* position of key in the Map, 0 when absent
IndexOf(c, key) ==
    IF \E i \in 1..Len(c) : c[i].key = key
    THEN CHOOSE i \in 1..Len(c) : c[i].key = key
    ELSE 0

Without(c, i) == SubSeq(c, 1, i - 1) \o SubSeq(c, i + 1, Len(c))

\* isExpired with an entry expiring as its age reaches maxAge (>=)
isExpired_atAge(entry, t) == t - entry.timestamp >= maxAge

isExpired(entry, t) == t - entry.timestamp > maxAge

\* the forEach of evictLeastRecentlyUsed: the position it ends on (0: oldestKey = '')
RECURSIVE lruScan(_, _, _, _)
lruScan(c, i, oldestIdx, oldestTime) ==
    IF i > Len(c) THEN oldestIdx
    ELSE IF c[i].lastAccessed < oldestTime
         THEN lruScan(c, i + 1, i, c[i].lastAccessed)
         ELSE lruScan(c, i + 1, oldestIdx, oldestTime)

evictLeastRecentlyUsed(c, t) ==
    IF Len(c) = 0 THEN c
    ELSE LET oldest == lruScan(c, 1, 0, t)
         IN  IF oldest # 0 THEN Without(c, oldest) ELSE c

\* mapSet on a list that is not keyed: the new entry goes last, the old one stays
mapSet_append(c, entry) == Append(c, entry)

\* Map.set: an existing key keeps its place, a new key goes last
mapSet(c, entry) ==
    LET i == IndexOf(c, entry.key)
    IN  IF i = 0 THEN Append(c, entry) ELSE [c EXCEPT ![i] = entry]

\* set leaving the entry of a key the cache already holds as it is
cacheSet_firstWins(c, key, content, t) ==
    IF IndexOf(c, key) # 0 THEN c
    ELSE mapSet(IF Len(c) >= maxCacheSize THEN evictLeastRecentlyUsed(c, t) ELSE c,
                CacheEntry(key, content, t))

cacheSet(c, key, content, t) ==
    LET room == IF Len(c) >= maxCacheSize THEN evictLeastRecentlyUsed(c, t) ELSE c
    IN  mapSet(room, CacheEntry(key, content, t))

\* get: the cache, the counters and the value it leaves; save: saveCacheToStorage ran
cacheGet(c, st, key, t) ==
    LET i == IndexOf(c, key)
    IN  IF i = 0
        THEN [cache |-> c, stats |-> [st EXCEPT !.misses = @ + 1],
              save |-> FALSE, value |-> NULL]
        ELSE IF isExpired(c[i], t)
        THEN [cache |-> Without(c, i), stats |-> [st EXCEPT !.misses = @ + 1],
              save |-> TRUE, value |-> NULL]
        ELSE [cache |-> [c EXCEPT ![i].accessCount = @ + 1, ![i].lastAccessed = t],
              stats |-> [st EXCEPT !.hits = @ + 1],
              save |-> FALSE, value |-> Some(c[i].content)]

cleanupExpiredEntries(c, t) == SelectSeq(c, LAMBDA e : ~isExpired(e, t))

\* saveCacheToStorage: the two keys of globalState it updates
saveCacheToStorage(gs, c, st) == [gs EXCEPT !.cache = c, !.cacheStats = st]

\* a save whose update fails, the failure leaving the save
saveOutcome_rethrown(ok) == IF ok THEN "saved" ELSE "thrown"

\* saveUsageHistory, saveCacheToStorage: try { update } catch { console.warn }:
\* what the caller sees of a save whose update succeeds (ok) or fails
saveOutcome(ok) == IF ok THEN "saved" ELSE "logged"

\* context.globalState after a save that was to leave it as saved
update(gs, saved, ok) == IF ok THEN saved ELSE gs


----------------------------------------------------------------------------
(* Strings.  A string is a sequence of atoms: single characters, keywords  *)
(* that one of the classifier's patterns matches, and idN, a run of N      *)
(* letters.                                                                *)

atomLen(a) ==
    CASE a = "id1001" -> 1001
      [] a = "id501" -> 501
      [] a = "id201" -> 201
      [] a = "id51" -> 51
      [] a = "await" -> 5
      [] a = "catch(" -> 6
      [] a = "=>{" -> 3
      [] OTHER -> 1

RECURSIVE strLen(_)
strLen(str) == IF str = << >> THEN 0 ELSE atomLen(Head(str)) + strLen(Tail(str))

isSpace(a) == a \in {" ", "\n"}

RECURSIVE trimStart(_)
trimStart(str) ==
    IF str # << >> /\ isSpace(Head(str)) THEN trimStart(Tail(str)) ELSE str

RECURSIVE trimEnd(_)
trimEnd(str) ==
    IF str # << >> /\ isSpace(str[Len(str)])
    THEN trimEnd(SubSeq(str, 1, Len(str) - 1))
    ELSE str

trim(str) == trimEnd(trimStart(str))

\* replace(/\s+/g, ' ')
RECURSIVE collapseSpaces(_)
collapseSpaces(str) ==
    IF str = << >> THEN << >>
    ELSE IF isSpace(Head(str))
         THEN <<" ">> \o collapseSpaces(trimStart(str))
         ELSE <<Head(str)>> \o collapseSpaces(Tail(str))

\* crypto.createHash('sha256').update(data).digest('hex'): a digest of data
sha256(data) == <<"sha256", data>>

createCacheKey(code, context, language) ==
    LET normalizedCode == collapseSpaces(trim(code))
    IN  sha256(normalizedCode \o <<"|">> \o context \o <<"|">> \o language)

----------------------------------------------------------------------------
(* Complexity classifier, in hundredths                                    *)

Min(a, b) == IF a < b THEN a ELSE b
Max(a, b) == IF a > b THEN a ELSE b

RECURSIVE nestingScan(_, _, _)
nestingScan(code, currentNesting, maxNesting) ==
    IF code = << >> THEN maxNesting
    ELSE IF Head(code) \in {"{", "=>{"}
         THEN nestingScan(Tail(code), currentNesting + 1,
                          Max(maxNesting, currentNesting + 1))
         ELSE IF Head(code) = "}"
              THEN nestingScan(Tail(code), Max(0, currentNesting - 1), maxNesting)
              ELSE nestingScan(Tail(code), currentNesting, maxNesting)

calculateMaxNesting(code) == nestingScan(code, 0, 0)

\* the value of currentNesting after each iteration of calculateMaxNesting's loop
RECURSIVE nestingTrace(_, _)
nestingTrace(code, currentNesting) ==
    IF code = << >> THEN << >>
    ELSE LET after == IF Head(code) \in {"{", "=>{"} THEN currentNesting + 1
                      ELSE IF Head(code) = "}" THEN Max(0, currentNesting - 1)
                      ELSE currentNesting
         IN  <<after>> \o nestingTrace(Tail(code), after)

\* code.split('\n').filter(line => line.trim().length > 0).length
RECURSIVE lineScan(_, _)
lineScan(code, inkedLine) ==
    IF code = << >> THEN (IF inkedLine THEN 1 ELSE 0)
    ELSE IF Head(code) = "\n"
         THEN (IF inkedLine THEN 1 ELSE 0) + lineScan(Tail(code), FALSE)
         ELSE lineScan(Tail(code), inkedLine \/ ~isSpace(Head(code)))

nonBlankLines(code) == lineScan(code, FALSE)

\* code.match(pattern).length for a pattern whose matches are the atoms of `atoms`
matchCount(code, atoms) == Len(SelectSeq(code, LAMBDA a : a \in atoms))

\* the atoms each entry of complexPatterns matches
complexPatterns ==
    <<{"await"}, {}, {}, {}, {}, {}, {}, {"catch("}, {}, {}>>

RECURSIVE patternScore(_, _)
patternScore(code, i) ==
    IF i > Len(complexPatterns) THEN 0
    ELSE Min(matchCount(code, complexPatterns[i]) * 5, 25) + patternScore(code, i + 1)

includes(str, word) == \E i \in 1..Len(str) : str[i] = word

\* analyzeCodeComplexity returning the sum of the factors as it is
analyzeCodeComplexity_unclamped(code, context, language) ==
    LET codeLength == strLen(code)
        lines == nonBlankLines(code)
        maxNesting == calculateMaxNesting(code)
        functionMatches == matchCount(code, {"=>{"})
        lengthFactor == IF codeLength > 1000 THEN 20
                        ELSE IF codeLength > 500 THEN 15
                        ELSE IF codeLength > 200 THEN 10
                        ELSE IF codeLength > 50 THEN 5 ELSE 0
        lineFactor == IF lines > 50 THEN 10 ELSE IF lines > 20 THEN 5 ELSE 0
        nestingFactor == IF maxNesting > 5 THEN 15
                         ELSE IF maxNesting > 3 THEN 10
                         ELSE IF maxNesting > 2 THEN 5 ELSE 0
        languageFactor == IF language \in {<<"typescript">>, <<"rust">>, <<"c++">>} THEN 10
                          ELSE IF language \in {<<"python">>, <<"javascript">>} THEN 5
                          ELSE 0
        functionFactor == IF functionMatches > 5 THEN 10
                          ELSE IF functionMatches > 2 THEN 5 ELSE 0
        contextFactor ==
            IF \E w \in {"algorithm", "optimization", "performance", "security",
                         "architecture"} : includes(context, w)
            THEN 15
            ELSE IF \E w \in {"logic", "business", "complex"} : includes(context, w)
                 THEN 10 ELSE 0
        complexityScore == lengthFactor + lineFactor + nestingFactor
                           + patternScore(code, 1) + languageFactor + functionFactor
                           + contextFactor
    IN  complexityScore

analyzeCodeComplexity(code, context, language) ==
    LET codeLength == strLen(code)
        lines == nonBlankLines(code)
        maxNesting == calculateMaxNesting(code)
        functionMatches == matchCount(code, {"=>{"})
        lengthFactor == IF codeLength > 1000 THEN 20
                        ELSE IF codeLength > 500 THEN 15
                        ELSE IF codeLength > 200 THEN 10
                        ELSE IF codeLength > 50 THEN 5 ELSE 0
        lineFactor == IF lines > 50 THEN 10 ELSE IF lines > 20 THEN 5 ELSE 0
        nestingFactor == IF maxNesting > 5 THEN 15
                         ELSE IF maxNesting > 3 THEN 10
                         ELSE IF maxNesting > 2 THEN 5 ELSE 0
        languageFactor == IF language \in {<<"typescript">>, <<"rust">>, <<"c++">>} THEN 10
                          ELSE IF language \in {<<"python">>, <<"javascript">>} THEN 5
                          ELSE 0
        functionFactor == IF functionMatches > 5 THEN 10
                          ELSE IF functionMatches > 2 THEN 5 ELSE 0
        contextFactor ==
            IF \E w \in {"algorithm", "optimization", "performance", "security",
                         "architecture"} : includes(context, w)
            THEN 15
            ELSE IF \E w \in {"logic", "business", "complex"} : includes(context, w)
                 THEN 10 ELSE 0
        complexityScore == lengthFactor + lineFactor + nestingFactor
                           + patternScore(code, 1) + languageFactor + functionFactor
                           + contextFactor
    IN  Min(Max(complexityScore, 0), 100)

----------------------------------------------------------------------------
(* Provider adapters                                                       *)

OpenAIProvider(apiKey) == [name |-> "OpenAI", apiKey |-> apiKey]
AnthropicProvider(apiKey) == [name |-> "Anthropic", apiKey |-> apiKey]
LocalProvider == [name |-> "Local", apiKey |-> ""]

\* truthiness of an optional string: undefined and '' are both written ""
isSet(v) == v # ""

validateConfiguration(provider) ==
    IF provider.name = "Local" THEN TRUE ELSE isSet(provider.apiKey)

getDefaultModel(provider) ==
    CASE provider.name = "OpenAI" -> "gpt-3.5-turbo"
      [] provider.name = "Anthropic" -> "claude-3-haiku-20240307"
      [] OTHER -> "llama2"

\* pricing[model].input per 1K tokens, in units of $0.00025; 0: no such entry
inputPrice(provider, model) ==
    CASE provider.name = "OpenAI" /\ model = "gpt-3.5-turbo" -> 6
      [] provider.name = "OpenAI" /\ model = "gpt-3.5-turbo-16k" -> 12
      [] provider.name = "OpenAI" /\ model = "gpt-4" -> 120
      [] provider.name = "OpenAI" /\ model = "gpt-4-turbo" -> 40
      [] provider.name = "OpenAI" /\ model = "gpt-4o" -> 20
      [] provider.name = "Anthropic" /\ model = "claude-3-haiku-20240307" -> 1
      [] provider.name = "Anthropic" /\ model = "claude-3-sonnet-20240229" -> 12
      [] provider.name = "Anthropic" /\ model = "claude-3-opus-20240229" -> 60
      [] OTHER -> 0

\* the cost generateResponse reports for a response of `tokens` thousand prompt
\* tokens and no completion tokens: OpenAI's calculateCost(total, model) and
\* Anthropic's calculateCostDetailed(input, 0, model) are both tokens/1000 * input
responseCost(provider, tokens, model) ==
    IF provider.name = "Local" THEN 0 ELSE tokens * inputPrice(provider, model)

\* the AIResponse of a successful generateResponse(request)
AIResponse(provider, requestModel, content, tokens) ==
    LET model == IF isSet(requestModel) THEN requestModel ELSE getDefaultModel(provider)
        total == IF provider.name = "Local" THEN 0 ELSE tokens
    IN  [content |-> content, tokens |-> total,
         cost |-> responseCost(provider, total, model),
         provider |-> provider.name, model |-> model]

----------------------------------------------------------------------------
(* AIManager: configuration and providers                                  *)

\* config.get(key, defaultValue); a setting is NULL (not set) or Some(value)
configGet(s, key, defaultValue) ==
    IF s[key] = NULL THEN defaultValue ELSE s[key][1]

loadConfiguration(s) ==
    [provider |-> configGet(s, "provider", "dual"),
     model |-> configGet(s, "model", ""),
     apiKey |-> configGet(s, "apiKey", ""),
     anthropicKey |-> configGet(s, "anthropicKey", ""),
     enableCaching |-> configGet(s, "cacheExplanations", TRUE),
     efficiencyApiKey |-> configGet(s, "efficiencyApiKey", ""),
     performanceApiKey |-> configGet(s, "performanceApiKey", ""),
     efficiencyModel |-> configGet(s, "efficiencyModel", "gpt-3.5-turbo"),
     performanceModel |-> configGet(s, "performanceModel", "gpt-4"),
     complexityThreshold |-> configGet(s, "complexityThreshold", 60)]

\* Map.get on the provider registry
registryGet(registry, name) ==
    IF \E i \in 1..Len(registry) : registry[i].key = name
    THEN (CHOOSE e \in {registry[i] : i \in 1..Len(registry)} : e.key = name).provider
    ELSE NULL

\* Map.set on the provider registry
registrySet(registry, name, provider) ==
    IF \E i \in 1..Len(registry) : registry[i].key = name
    THEN [i \in 1..Len(registry) |->
            IF registry[i].key = name THEN [key |-> name, provider |-> provider]
            ELSE registry[i]]
    ELSE Append(registry, [key |-> name, provider |-> provider])

\* the manager's provider fields, as one record
ManagerState(registry, efficiency, performance, current) ==
    [providers |-> registry, efficiencyProvider |-> efficiency,
     performanceProvider |-> performance, currentProvider |-> current]

initializeDualProviders(config, m) ==
    LET eff1 == IF isSet(config.efficiencyApiKey)
                THEN OpenAIProvider(config.efficiencyApiKey)
                ELSE m.efficiencyProvider
        perf1 == IF isSet(config.performanceApiKey)
                 THEN OpenAIProvider(config.performanceApiKey)
                 ELSE m.performanceProvider
    IN  IF eff1 = NULL /\ perf1 = NULL
        THEN IF isSet(config.apiKey)
             THEN LET fallbackProvider == OpenAIProvider(config.apiKey)
                  IN  ManagerState(m.providers, fallbackProvider, fallbackProvider,
                                   fallbackProvider)
             ELSE ManagerState(m.providers, eff1, perf1, m.currentProvider)
        ELSE IF eff1 = NULL
        THEN ManagerState(m.providers, perf1, perf1, perf1)
        ELSE IF perf1 = NULL
        THEN ManagerState(m.providers, eff1, eff1, eff1)
        ELSE ManagerState(m.providers, eff1, perf1, eff1)

initializeProviders(config, m) ==
    IF config.provider = "dual" THEN initializeDualProviders(config, m)
    ELSE LET r1 == IF isSet(config.apiKey)
                   THEN registrySet(m.providers, "openai", OpenAIProvider(config.apiKey))
                   ELSE m.providers
             r2 == IF isSet(config.anthropicKey)
                   THEN registrySet(r1, "anthropic", AnthropicProvider(config.anthropicKey))
                   ELSE r1
             r3 == registrySet(r2, "local", LocalProvider)
             configured == registryGet(r3, config.provider)
         IN  ManagerState(r3, m.efficiencyProvider, m.performanceProvider,
                          IF configured # NULL THEN configured ELSE r3[1].provider)

\* the state of a manager before its constructor has initialized the providers
NoProviders == ManagerState(<< >>, NULL, NULL, NULL)

\* selectProvider leaving the model to the provider outside tier routing
selectProvider_dropsModel(config, m, code, context, language) ==
    IF config.provider = "dual" /\ m.efficiencyProvider # NULL
                                /\ m.performanceProvider # NULL
    THEN LET complexity == analyzeCodeComplexity(code, context, language)
             threshold == IF config.complexityThreshold = 0 THEN 60
                          ELSE config.complexityThreshold
         IN  IF complexity >= threshold
             THEN [provider |-> m.performanceProvider, model |-> config.performanceModel]
             ELSE [provider |-> m.efficiencyProvider, model |-> config.efficiencyModel]
    ELSE IF m.currentProvider = NULL THEN NULL
    ELSE [provider |-> m.currentProvider, model |-> ""]

\* generateExplanation: the provider and the model it passes to
\* generateWithProvider, NULL when it throws 'No AI provider available'
selectProvider(config, m, code, context, language) ==
    IF config.provider = "dual" /\ m.efficiencyProvider # NULL
                                /\ m.performanceProvider # NULL
    THEN LET complexity == analyzeCodeComplexity(code, context, language)
             threshold == IF config.complexityThreshold = 0 THEN 60
                          ELSE config.complexityThreshold
         IN  IF complexity >= threshold
             THEN [provider |-> m.performanceProvider, model |-> config.performanceModel]
             ELSE [provider |-> m.efficiencyProvider, model |-> config.efficiencyModel]
    ELSE IF m.currentProvider = NULL THEN NULL
    ELSE [provider |-> m.currentProvider, model |-> config.model]

----------------------------------------------------------------------------
(* The inputs the model draws                                              *)

\* generateExplanation(code, context, language)
Request(code, context, language) ==
    [code |-> code, context |-> context, language |-> language]

Requests ==
    { Request(<<"x">>, <<"x">>, <<"python">>),
      Request(<<"id1001", "await", "await", "await">>, <<"algorithm">>,
              <<"typescript">>),
      Request(<<"{", "}">>, <<"logic">>, <<"go">>) }

keyOf(req) == createCacheKey(req.code, req.context, req.language)

Keys == {keyOf(req) : req \in Requests}

\* the settings of the 'codora' section, not set unless named here
Settings(named) ==
    [k \in {"provider", "model", "apiKey", "anthropicKey", "cacheExplanations",
            "efficiencyApiKey", "performanceApiKey", "efficiencyModel",
            "performanceModel", "complexityThreshold", "budgetLimit",
            "budgetResetType"} |->
        IF k \in DOMAIN named THEN Some(named[k]) ELSE NULL]

\* the price of one thousand tokens of the default efficiency model
UnitCost == inputPrice(OpenAIProvider("k"), "gpt-3.5-turbo")

SettingsChoices ==
    { \* both tiers, the defaults otherwise
      Settings([efficiencyApiKey |-> "ke", performanceApiKey |-> "kp",
                budgetLimit |-> 2 * UnitCost]),
      \* both tiers, a threshold of 0
      Settings([efficiencyApiKey |-> "ke", performanceApiKey |-> "kp",
                complexityThreshold |-> 0, budgetLimit |-> UnitCost]),
      \* a fresh install: dual mode and no key
      Settings([budgetLimit |-> 0]),
      \* one provider, no cache
      Settings([provider |-> "openai", apiKey |-> "ka", cacheExplanations |-> FALSE,
                budgetLimit |-> UnitCost]),
      \* one provider and a model of the user's choice
      Settings([provider |-> "openai", apiKey |-> "ka", model |-> "gpt-4o",
                budgetLimit |-> 2 * UnitCost]),
      \* dual mode, the efficiency tier only
      Settings([efficiencyApiKey |-> "ke", budgetLimit |-> 2 * UnitCost]),
      \* both tiers and a model of the user's choice
      Settings([efficiencyApiKey |-> "ke", performanceApiKey |-> "kp",
                model |-> "gpt-4o", budgetLimit |-> 2 * UnitCost]) }

\* CostTracker.getBudgetLimit
getBudgetLimit(s) == configGet(s, "budgetLimit", 40000)

\* nothing has returned yet
NoReturn == [op |-> "none"]

EmptyStorage ==
    [usageHistory |-> << >>, cache |-> << >>, cacheStats |-> [hits |-> 0, misses |-> 0],
     archives |-> {}]

----------------------------------------------------------------------------
(* Operations                                                              *)

\* new AIManager(context) on an empty globalState, the user's settings being s
InitWith(s) ==
    /\ now = 0
    /\ settings = s
    /\ usageHistory = << >>
    /\ appended = << >>
    /\ budgetLimit = getBudgetLimit(s)
    /\ cache = << >>
    /\ stats = [hits |-> 0, misses |-> 0]
    /\ written = [k \in Keys |-> NULL]
    /\ globalState = EmptyStorage
    /\ configuration = loadConfiguration(s)
    /\ LET m == initializeProviders(loadConfiguration(s), NoProviders)
       IN  /\ providers = m.providers
           /\ efficiencyProvider = m.efficiencyProvider
           /\ performanceProvider = m.performanceProvider
           /\ currentProvider = m.currentProvider
    /\ inflight = << >>
    /\ started = 0
    /\ last = NoReturn
    /\ calls = << >>

Init == \E s \in SettingsChoices : InitWith(s)

Tick ==
    /\ now < MaxClock
    /\ now' = now + 1
    /\ UNCHANGED <<settings, ledgerVars, cacheVars, globalState, managerVars, inflight,
                   started, last, calls>>

\* CostTracker.recordUsage(cost, tokens, provider, model)
RecordUsageOf(cost) ==
    /\ Len(appended) < MaxRecorded
    /\ usageHistory' = recordUsage(usageHistory, now, cost, cost, "OpenAI", "gpt-4")
    /\ appended' = Append(appended, UsageRecord(now, cost, cost, "OpenAI", "gpt-4"))
    /\ globalState' = [globalState EXCEPT !.usageHistory = usageHistory']
    /\ UNCHANGED <<now, settings, budgetLimit, cacheVars, managerVars, inflight, started,
                   last, calls>>

RecordUsage == \E cost \in 0..MaxCost : RecordUsageOf(cost)

\* resetBudget storing the archive after it has emptied the history
ResetBudget_afterWipe ==
    LET resetType == configGet(settings, "budgetResetType", "clear")
    IN  /\ usageHistory' = << >>
        /\ appended' = << >>
        /\ globalState' =
              [globalState EXCEPT
                 !.usageHistory = << >>,
                 !.archives = IF resetType = "clear" THEN @
                              ELSE {a \in @ : a.key # now}
                                   \cup {[key |-> now, records |-> usageHistory']}]
        /\ UNCHANGED <<now, settings, budgetLimit, cacheVars, managerVars, inflight,
                       started, last, calls>>

\* CostTracker.resetBudget()
ResetBudget ==
    LET resetType == configGet(settings, "budgetResetType", "clear")
    IN  /\ usageHistory' = << >>
        /\ appended' = << >>
        /\ globalState' =
              [globalState EXCEPT
                 !.usageHistory = << >>,
                 !.archives = IF resetType = "clear" THEN @
                              ELSE {a \in @ : a.key # now}
                                   \cup {[key |-> now, records |-> usageHistory]}]
        /\ UNCHANGED <<now, settings, budgetLimit, cacheVars, managerVars, inflight,
                       started, last, calls>>

\* the history variable `written` after set(key, content) has left the cache c:
\* the keys the set pushed out have no written content any more
noteSet(w, c, key, content, t) ==
    [k \in Keys |->
        IF k = key THEN Some([content |-> content, at |-> t])
        ELSE IF IndexOf(c, k) = 0 THEN NULL ELSE w[k]]

\* CacheManager.set(key, content)
CacheSetOf(key, content) ==
    /\ started < MaxCacheCalls
    /\ started' = started + 1
    /\ cache' = cacheSet(cache, key, content, now)
    /\ written' = noteSet(written, cache', key, content, now)
    /\ globalState' = saveCacheToStorage(globalState, cache', stats)
    /\ UNCHANGED <<now, settings, ledgerVars, stats, managerVars, inflight, last, calls>>

CacheSet == \E key \in Keys, content \in Contents : CacheSetOf(key, content)

\* CacheManager.get(key)
CacheGetOf(key) ==
    /\ started < MaxCacheCalls
    /\ started' = started + 1
    /\ LET r == cacheGet(cache, stats, key, now)
       IN  /\ cache' = r.cache
           /\ stats' = r.stats
           /\ globalState' = IF r.save
                             THEN saveCacheToStorage(globalState, r.cache, r.stats)
                             ELSE globalState
           /\ last' = [op |-> "get", key |-> key, value |-> r.value]
    /\ UNCHANGED <<now, settings, ledgerVars, written, managerVars, inflight, calls>>

CacheGet == \E key \in Keys : CacheGetOf(key)

\* CacheManager.clear(), the update of storage succeeding (ok) or failing
CacheClearStoring(ok) ==
    /\ cache' = << >>
    /\ stats' = [hits |-> 0, misses |-> 0]
    /\ written' = [k \in Keys |-> NULL]
    /\ globalState' = update(globalState,
                             saveCacheToStorage(globalState, cache', stats'), ok)
    /\ last' = IF saveOutcome(ok) = "thrown"
               THEN [op |-> "clear", outcome |-> "error"]
               ELSE last
    /\ UNCHANGED <<now, settings, ledgerVars, managerVars, inflight, started, calls>>

\* CacheManager.clear()
CacheClear == CacheClearStoring(TRUE)

\* the hourly timer of setupCleanupTimer
CleanupTimer ==
    /\ cache' = cleanupExpiredEntries(cache, now)
    /\ globalState' = IF Len(cache') < Len(cache)
                      THEN saveCacheToStorage(globalState, cache', stats)
                      ELSE globalState
    /\ UNCHANGED <<now, settings, ledgerVars, stats, written, managerVars, inflight,
                   started, last, calls>>

\* what generateExplanation hands back
Thrown(error) == [op |-> "generateExplanation", outcome |-> "error", error |-> error]
Returned(text) == [op |-> "generateExplanation", outcome |-> "text", text |-> text]
Awaiting == [op |-> "generateExplanation", outcome |-> "pending"]

Manager == ManagerState(providers, efficiencyProvider, performanceProvider,
                        currentProvider)

\* generateWithProvider asking the budget inside its try, so that the catch wraps
\* the budget error as it wraps a provider's
generateWithProvider_wrapped(cacheKey, enableCaching, c, st, history, limit, t) ==
    IF ~canMakeRequest(history, limit, t)
    THEN [result |-> Thrown("AI request failed"), cache |-> c, stats |-> st,
          save |-> FALSE, send |-> FALSE, calls |-> <<"canMakeRequest">>]
    ELSE LET looked == IF enableCaching THEN cacheGet(c, st, cacheKey, t)
                       ELSE [value |-> NULL, cache |-> c, stats |-> st, save |-> FALSE]
             cached == looked.value # NULL /\ looked.value[1] # ""
         IN  [result |-> IF cached THEN Returned(looked.value[1]) ELSE Awaiting,
              cache |-> looked.cache, stats |-> looked.stats, save |-> looked.save,
              send |-> ~cached,
              calls |-> <<"canMakeRequest">>
                        \o (IF enableCaching THEN <<"get">> ELSE << >>)
                        \o (IF cached THEN << >> ELSE <<"generateResponse">>)]

\* generateWithProvider looking the key up before it asks the budget
generateWithProvider_cacheFirst(cacheKey, enableCaching, c, st, history, limit, t) ==
    LET looked == IF enableCaching THEN cacheGet(c, st, cacheKey, t)
                  ELSE [cache |-> c, stats |-> st, save |-> FALSE, value |-> NULL]
        cached == looked.value # NULL /\ looked.value[1] # ""
        lookup == IF enableCaching THEN <<"get">> ELSE << >>
    IN  IF cached
        THEN [result |-> Returned(looked.value[1]), cache |-> looked.cache,
              stats |-> looked.stats, save |-> looked.save, send |-> FALSE,
              calls |-> lookup]
        ELSE IF ~canMakeRequest(history, limit, t)
        THEN [result |-> Thrown("Budget limit reached"), cache |-> looked.cache,
              stats |-> looked.stats, save |-> looked.save, send |-> FALSE,
              calls |-> lookup \o <<"canMakeRequest">>]
        ELSE [result |-> Awaiting, cache |-> looked.cache, stats |-> looked.stats,
              save |-> looked.save, send |-> TRUE,
              calls |-> lookup \o <<"canMakeRequest", "generateResponse">>]

\* generateWithProvider up to its await: what it hands back, the cache and the
\* counters it leaves, whether it saved the cache, whether it sent the request,
\* and what it called, in order
generateWithProvider(cacheKey, enableCaching, c, st, history, limit, t) ==
    IF ~canMakeRequest(history, limit, t)
    THEN [result |-> Thrown("Budget limit reached"), cache |-> c, stats |-> st,
          save |-> FALSE, send |-> FALSE, calls |-> <<"canMakeRequest">>]
    ELSE LET looked == IF enableCaching THEN cacheGet(c, st, cacheKey, t)
                       ELSE [cache |-> c, stats |-> st, save |-> FALSE, value |-> NULL]
             \* if (cached): null and the empty string are both falsy
             cached == looked.value # NULL /\ looked.value[1] # ""
         IN  [result |-> IF cached THEN Returned(looked.value[1]) ELSE Awaiting,
              cache |-> looked.cache, stats |-> looked.stats, save |-> looked.save,
              send |-> ~cached,
              calls |-> <<"canMakeRequest">>
                        \o (IF enableCaching THEN <<"get">> ELSE << >>)
                        \o (IF cached THEN << >> ELSE <<"generateResponse">>)]

\* AIManager.generateExplanation(code, context, language), up to the await of
\* provider.generateResponse, which has sent the request by then; the update of
\* storage, if the lookup makes one, succeeds (ok) or fails
GenerateExplanationStoring(req, ok) ==
    LET route == selectProvider(configuration, Manager, req.code, req.context,
                                req.language)
        cacheKey == keyOf(req)
        r == generateWithProvider(cacheKey, configuration.enableCaching, cache, stats,
                                  usageHistory, budgetLimit, now)
    IN  /\ started < MaxCalls
        /\ started' = started + 1
        /\ IF route = NULL
           THEN /\ last' = Thrown("No AI provider available")
                /\ calls' = << >>
                /\ UNCHANGED <<cache, stats, globalState, inflight>>
           ELSE /\ last' = IF r.save /\ saveOutcome(ok) = "thrown"
                           THEN Thrown("storage update failed")
                           ELSE r.result
                /\ calls' = r.calls
                /\ cache' = r.cache
                /\ stats' = r.stats
                /\ globalState' =
                      IF r.save
                      THEN update(globalState,
                                  saveCacheToStorage(globalState, r.cache, r.stats), ok)
                      ELSE globalState
                /\ IF r.send /\ ~(r.save /\ saveOutcome(ok) = "thrown")
                   THEN /\ Len(inflight) < MaxInflight
                        /\ inflight' = Append(inflight,
                              [key |-> cacheKey, provider |-> route.provider,
                               model |-> IF isSet(route.model) THEN route.model
                                         ELSE "gpt-3.5-turbo"])
                   ELSE UNCHANGED inflight
        /\ UNCHANGED <<now, settings, ledgerVars, written, managerVars>>

\* AIManager.generateExplanation(code, context, language)
GenerateExplanationOf(req) == GenerateExplanationStoring(req, TRUE)

GenerateExplanation == \E req \in Requests : GenerateExplanationOf(req)

\* generateResponse's catch: the error an adapter throws on a failure
providerFailure(provider, cause) ==
    [message |-> IF provider.name = "Local" THEN "Local model request failed"
                 ELSE IF provider.name = "Anthropic" THEN "Anthropic request failed"
                 ELSE "OpenAI request failed",
     cause |-> cause]

\* a non-2xx status, or fetch rejecting
Causes == {"API error", "network error"}

\* generateWithProvider's catch: the error it throws in place of the adapter's
Failed(failure) ==
    [op |-> "response", outcome |-> "error", error |-> "AI request failed",
     cause |-> failure]

\* the rest of generateWithProvider once the provider has answered the i-th call
\* in flight, the updates of storage by recordUsage and by set succeeding or failing
ProviderRespondsStoring(i, content, tokens, okLedger, okCache) ==
    LET call == inflight[i]
        response == AIResponse(call.provider, call.model, content, tokens)
        thrown == \/ saveOutcome(okLedger) = "thrown"
                  \/ configuration.enableCaching /\ saveOutcome(okCache) = "thrown"
    IN  /\ inflight' = Without(inflight, i)
        /\ usageHistory' = recordUsage(usageHistory, now, response.cost,
                                       response.tokens, response.provider,
                                       response.model)
        /\ appended' = Append(appended,
                              UsageRecord(now, response.cost, response.tokens,
                                          response.provider, response.model))
        /\ cache' = IF configuration.enableCaching
                    THEN cacheSet(cache, call.key, response.content, now)
                    ELSE cache
        /\ written' = IF configuration.enableCaching
                      THEN noteSet(written, cache', call.key, response.content, now)
                      ELSE written
        /\ globalState' =
              LET saved == update(globalState,
                                  [globalState EXCEPT !.usageHistory = usageHistory'],
                                  okLedger)
              IN  IF configuration.enableCaching
                  THEN update(saved, saveCacheToStorage(saved, cache', stats), okCache)
                  ELSE saved
        /\ last' = IF thrown
                   THEN Failed([message |-> "storage update failed", cause |-> ""])
                   ELSE [op |-> "response", outcome |-> "text",
                         text |-> response.content]
        /\ calls' = <<"recordUsage">>
                    \o (IF configuration.enableCaching THEN <<"set">> ELSE << >>)
        /\ UNCHANGED <<now, settings, budgetLimit, stats, managerVars, started>>

\* the rest of generateWithProvider once the provider has answered the i-th call
\* in flight
ProviderRespondsOf(i, content, tokens) ==
    ProviderRespondsStoring(i, content, tokens, TRUE, TRUE)

ProviderResponds ==
    \E i \in 1..Len(inflight), content \in Contents, tokens \in {0, MaxTokens} :
        ProviderRespondsOf(i, content, tokens)

\* a failure answered by handing the call to the other tier
ProviderFailsOf_fallback(i, cause) ==
    LET call == inflight[i]
        other == IF call.provider = efficiencyProvider
                 THEN performanceProvider ELSE efficiencyProvider
    IN  /\ inflight' = IF other = NULL THEN Without(inflight, i)
                       ELSE Append(Without(inflight, i),
                                   [call EXCEPT !.provider = other])
        /\ last' = IF other = NULL
                   THEN Failed(providerFailure(call.provider, cause))
                   ELSE Awaiting
        /\ calls' = IF other = NULL THEN << >> ELSE <<"generateResponse">>
        /\ UNCHANGED <<now, settings, ledgerVars, cacheVars, globalState, managerVars,
                       started>>

\* the rest of generateWithProvider once the provider call of the i-th call in
\* flight has failed (non-2xx, network error)
ProviderFailsOf(i, cause) ==
    /\ inflight' = Without(inflight, i)
    /\ last' = Failed(providerFailure(inflight[i].provider, cause))
    /\ calls' = << >>
    /\ UNCHANGED <<now, settings, ledgerVars, cacheVars, globalState, managerVars,
                   started>>

ProviderFails == \E i \in 1..Len(inflight), cause \in Causes : ProviderFailsOf(i, cause)

\* the gateway: requests and the provider's answers, as time passes
Next ==
    \/ Tick
    \/ GenerateExplanation
    \/ ProviderResponds
    \/ ProviderFails

Spec == Init /\ [][Next]_vars

\* the CacheManager alone, driven through its public methods
InitCache == InitWith(Settings([budgetLimit |-> 0]))

NextCache == Tick \/ CacheSet \/ CacheGet \/ CacheClear \/ CleanupTimer

SpecCache == InitCache /\ [][NextCache]_vars

\* the CostTracker alone, driven through its public methods
InitLedger == \E limit \in 0..MaxBudget : InitWith(Settings([budgetLimit |-> limit]))

NextLedger == Tick \/ RecordUsage \/ ResetBudget

SpecLedger == InitLedger /\ [][NextLedger]_vars

\* AIManager.refreshConfiguration(), the user's settings having become s: the
\* configuration is read again and initializeProviders runs over the fields as
\* they are; the CostTracker keeps the limit it read when it was built
RefreshConfigurationTo(s) ==
    /\ settings' = s
    /\ configuration' = loadConfiguration(s)
    /\ LET m == initializeProviders(loadConfiguration(s), Manager)
       IN  /\ providers' = m.providers
           /\ efficiencyProvider' = m.efficiencyProvider
           /\ performanceProvider' = m.performanceProvider
           /\ currentProvider' = m.currentProvider
    /\ UNCHANGED <<now, ledgerVars, cacheVars, globalState, inflight, started, last,
                   calls>>

RefreshConfiguration == \E s \in SettingsChoices : RefreshConfigurationTo(s)

\* the gateway at one instant, the user changing the settings and refreshing
NextRefresh ==
    \/ RefreshConfiguration
    \/ GenerateExplanation
    \/ ProviderResponds
    \/ ProviderFails

SpecRefresh == Init /\ [][NextRefresh]_vars

\* the strings of at most n of these characters
StringsUpTo(atoms, n) == UNION {[1..k -> atoms] : k \in 0..n}

\* the texts createCacheKey is applied to: codes with blanks and '|', contexts and
\* languages with '|'
KeyCodes == StringsUpTo({"a", " ", "|"}, MaxKeyLen)
KeyContexts == StringsUpTo({"a", "|"}, MaxKeyLen)
KeyLanguages == {<<"go">>, <<"|", "go">>}

\* CacheManager.createCacheKey(code, context, language)
CreateCacheKeyOf(code, context, language) ==
    /\ last' = [op |-> "createCacheKey", code |-> code, context |-> context,
                language |-> language,
                key |-> createCacheKey(code, context, language)]
    /\ UNCHANGED <<now, settings, ledgerVars, cacheVars, globalState, managerVars,
                   inflight, started, calls>>

CreateCacheKey ==
    \E code \in KeyCodes, context \in KeyContexts, language \in KeyLanguages :
        CreateCacheKeyOf(code, context, language)

\* createCacheKey alone, applied to one triple after another
NextKeys == CreateCacheKey

SpecKeys == InitCache /\ [][NextKeys]_vars

\* the CostTracker alone at one instant, the user having chosen how resetBudget
\* treats the history
InitReset ==
    \E resetType \in {"clear", "archive"} :
        InitWith(Settings([budgetLimit |-> MaxBudget, budgetResetType |-> resetType]))

NextReset == RecordUsage \/ ResetBudget

SpecReset == InitReset /\ [][NextReset]_vars

\* n copies of a text, one after the other
RECURSIVE repeat(_, _)
repeat(str, n) == IF n = 0 THEN << >> ELSE str \o repeat(str, n - 1)

ScoreLetters == {<< >>, <<"id51">>, <<"id201">>, <<"id501">>, <<"id1001">>}

\* the codes the classifier is applied to, by what they are made of: a run of
\* letters, unmatched closing braces, braces opened in a row, awaits and catch
\* clauses, arrow functions, and lines of one letter; the codes of many lines
\* hold nothing else but a first line of letters
ScoreShapes ==
    [letters : ScoreLetters, closes : {0, 2}, opens : 0..MaxNest,
     matches : {0, MaxMatches}, arrows : {0, 3, MaxMatches}, lines : {0}]
    \cup [letters : ScoreLetters, closes : {0}, opens : {0}, matches : {0},
          arrows : {0}, lines : {21}]

codeOf(shape) ==
    shape.letters \o repeat(<<"}">>, shape.closes) \o repeat(<<"{">>, shape.opens)
    \o repeat(<<"await">>, shape.matches) \o repeat(<<"catch(">>, shape.matches)
    \o repeat(<<"=>{", "}">>, shape.arrows) \o repeat(<<"\n", "a">>, shape.lines)

ScoreContexts == {<<"x">>, <<"logic">>, <<"security">>}
ScoreLanguages == {<<"go">>, <<"python">>, <<"typescript">>}

\* the input of a call analyzeCodeComplexity(code, context, language)
ScoreInput(code, context, language) ==
    [op |-> "input", code |-> code, context |-> context, language |-> language]

\* a manager about to classify one input
InitScore ==
    \E shape \in ScoreShapes, context \in ScoreContexts, language \in ScoreLanguages :
        LET s == Settings([budgetLimit |-> 0])
            m == initializeProviders(loadConfiguration(s), NoProviders)
        IN  /\ now = 0
            /\ settings = s
            /\ usageHistory = << >>
            /\ appended = << >>
            /\ budgetLimit = getBudgetLimit(s)
            /\ cache = << >>
            /\ stats = [hits |-> 0, misses |-> 0]
            /\ written = [k \in Keys |-> NULL]
            /\ globalState = EmptyStorage
            /\ configuration = loadConfiguration(s)
            /\ providers = m.providers
            /\ efficiencyProvider = m.efficiencyProvider
            /\ performanceProvider = m.performanceProvider
            /\ currentProvider = m.currentProvider
            /\ inflight = << >>
            /\ started = 0
            /\ last = ScoreInput(codeOf(shape), context, language)
            /\ calls = << >>

\* analyzeCodeComplexity(code, context, language)
AnalyzeCodeComplexity ==
    /\ last.op = "input"
    /\ last' = [last EXCEPT !.op = "analyzeCodeComplexity"]
                @@ [score |-> analyzeCodeComplexity(last.code, last.context,
                                                   last.language)]
    /\ UNCHANGED <<now, settings, ledgerVars, cacheVars, globalState, managerVars,
                   inflight, started, calls>>

\* the classifier alone, applied to its input
NextScore == AnalyzeCodeComplexity

SpecScore == InitScore /\ [][NextScore]_vars

\* the usage histories earlier sessions may have left in storage: at most
\* MaxPersisted records, none older than 180 days at the start, in append order
PersistedHistories ==
    {h \in StringsUpTo({UsageRecord(t, 1, 1, "OpenAI", "gpt-4") :
                           t \in -sixMonthsMs..0}, MaxPersisted) :
        \A i \in 1..Len(h) - 1 : h[i].timestamp <= h[i + 1].timestamp}

\* new CostTracker(context): loadUsageHistory, getBudgetLimit, cleanupOldRecords
Construct ==
    LET loaded == loadUsageHistory(globalState)
        cleaned == cleanupOldRecords(loaded, now)
    IN  /\ usageHistory' = cleaned.usageHistory
        /\ budgetLimit' = getBudgetLimit(settings)
        /\ globalState' = IF cleaned.saved
                          THEN [globalState EXCEPT !.usageHistory = cleaned.usageHistory]
                          ELSE globalState
        /\ last' = [op |-> "construct", loaded |-> Len(loaded),
                    removed |-> Len(loaded) - Len(cleaned.usageHistory)]
        /\ UNCHANGED <<now, settings, appended, cacheVars, managerVars, inflight,
                       started, calls>>

\* the CostTracker built on the storage an earlier session has left, used, and
\* built again at each later start
InitStartup ==
    \E persisted \in PersistedHistories :
        LET s == Settings([budgetLimit |-> MaxBudget])
            stored == [EmptyStorage EXCEPT !.usageHistory = persisted]
            cleaned == cleanupOldRecords(loadUsageHistory(stored), 0)
            m == initializeProviders(loadConfiguration(s), NoProviders)
        IN  /\ now = 0
            /\ settings = s
            /\ usageHistory = cleaned.usageHistory
            /\ appended = << >>
            /\ budgetLimit = getBudgetLimit(s)
            /\ cache = << >>
            /\ stats = [hits |-> 0, misses |-> 0]
            /\ written = [k \in Keys |-> NULL]
            /\ globalState = IF cleaned.saved
                             THEN [stored EXCEPT !.usageHistory = cleaned.usageHistory]
                             ELSE stored
            /\ configuration = loadConfiguration(s)
            /\ providers = m.providers
            /\ efficiencyProvider = m.efficiencyProvider
            /\ performanceProvider = m.performanceProvider
            /\ currentProvider = m.currentProvider
            /\ inflight = << >>
            /\ started = 0
            /\ last = [op |-> "construct", loaded |-> Len(persisted),
                       removed |-> Len(persisted) - Len(cleaned.usageHistory)]
            /\ calls = << >>

NextStartup == Tick \/ RecordUsage \/ Construct

SpecStartup == InitStartup /\ [][NextStartup]_vars

\* the operations on a storage whose updates fail
GenerateExplanationFaulty ==
    \E req \in Requests : GenerateExplanationStoring(req, FALSE)

ProviderRespondsFaulty ==
    \E i \in 1..Len(inflight), content \in Contents, tokens \in {0, MaxTokens} :
        ProviderRespondsStoring(i, content, tokens, FALSE, FALSE)

CacheClearFaulty == CacheClearStoring(FALSE)

\* the gateway of a user with both tiers, on a storage whose updates fail
InitFaults ==
    InitWith(Settings([efficiencyApiKey |-> "ke", performanceApiKey |-> "kp",
                       budgetLimit |-> 2 * UnitCost]))

NextFaults ==
    \/ Tick
    \/ GenerateExplanationFaulty
    \/ ProviderRespondsFaulty
    \/ ProviderFails
    \/ CacheClearFaulty

SpecFaults == InitFaults /\ [][NextFaults]_vars

----------------------------------------------------------------------------
(* Properties of the gateway (Spec)                                        *)

\* the cost of the ledger's records of the last 30 days
BudgetSpent ==
    SumCost(SelectSeq(usageHistory, LAMBDA r : r.timestamp > now - monthMs))

\* generateExplanation finds a provider to hand the request to
ProviderAvailable ==
    \/ /\ configuration.provider = "dual"
       /\ efficiencyProvider # NULL
       /\ performanceProvider # NULL
    \/ currentProvider # NULL

\* the cache holds an entry of this key that is no older than maxAge
Live(key) ==
    \E i \in 1..Len(cache) : cache[i].key = key /\ now - cache[i].timestamp <= maxAge

EntryOf(c, key) == c[CHOOSE i \in 1..Len(c) : c[i].key = key]

\* C1 (as stated): whenever canMakeRequest() is false when generateExplanation is
\* called, the call invokes no provider and fails with the budget-exceeded error.
C1_ExhaustedBudgetFailsWithBudgetError ==
    [][\A req \in Requests :
          (GenerateExplanationOf(req) /\ BudgetSpent >= budgetLimit)
          => /\ inflight' = inflight
             /\ last' = Thrown("Budget limit reached")]_vars

\* C1 (amended): whenever canMakeRequest() is false when generateExplanation is
\* called, the call invokes no provider; it fails with the budget-exceeded error if
\* a provider is available for the request, and with the no-provider error if none is.
C1_ExhaustedBudgetInvokesNoProvider ==
    [][\A req \in Requests :
          (GenerateExplanationOf(req) /\ BudgetSpent >= budgetLimit)
          => /\ inflight' = inflight
             /\ last' = IF ProviderAvailable THEN Thrown("Budget limit reached")
                        ELSE Thrown("No AI provider available")]_vars

\* a call has just failed on a budget that billed responses have used up
C1_Witness ==
    /\ last = Thrown("Budget limit reached")
    /\ usageHistory # << >>
    /\ BudgetSpent >= budgetLimit

\* C2: with caching enabled, a request whose key has a live cache entry is never
\* failed by the budget gate, whatever the current-period cost is: the lookup
\* comes before the budget check.
C2_LiveEntryIsNeverFailedByTheBudget ==
    [][\A req \in Requests :
          (GenerateExplanationOf(req) /\ configuration.enableCaching
              /\ Live(keyOf(req)))
          => last' # Thrown("Budget limit reached")]_vars

\* C3: with caching enabled and budget available, a call identical to one that has
\* completed, its entry neither expired nor evicted since, invokes no provider,
\* returns the text of the first call and leaves the ledger as it is.
C3_RepeatedCallIsServedFromTheCache ==
    [][\A req \in Requests :
          (GenerateExplanationOf(req) /\ configuration.enableCaching
              /\ Live(keyOf(req)) /\ BudgetSpent < budgetLimit)
          => /\ last' = Returned(EntryOf(cache, keyOf(req)).content)
             /\ inflight' = inflight
             /\ usageHistory' = usageHistory]_vars

\* C9 (as stated): when the current-period cost equals the budget limit,
\* generateExplanation fails with the budget-exceeded error and changes neither the
\* ledger's records, nor the cache's entries, nor the hit/miss counters.
C9_AtTheLimitFailsWithBudgetError ==
    [][\A req \in Requests :
          (GenerateExplanationOf(req) /\ BudgetSpent = budgetLimit)
          => /\ last' = Thrown("Budget limit reached")
             /\ UNCHANGED <<usageHistory, cache, stats>>]_vars

\* C9 (amended): when the current-period cost equals the budget limit,
\* generateExplanation fails, with the budget-exceeded error if a provider is
\* available for the request and with the no-provider error if none is, and changes
\* neither the ledger's records, nor the cache's entries, nor the hit/miss counters,
\* nor what is persisted, and sends nothing.
C9_AtTheLimitNothingChanges ==
    [][\A req \in Requests :
          (GenerateExplanationOf(req) /\ BudgetSpent = budgetLimit)
          => /\ last' = IF ProviderAvailable THEN Thrown("Budget limit reached")
                        ELSE Thrown("No AI provider available")
             /\ UNCHANGED <<usageHistory, cache, stats, globalState, inflight>>]_vars

\* a call has just failed with the ledger exactly at a positive limit and an entry
\* in the cache
C9_Witness ==
    /\ last = Thrown("Budget limit reached")
    /\ budgetLimit > 0
    /\ BudgetSpent = budgetLimit
    /\ cache # << >>

\* dual mode, two distinct tiers, no model override
TwoTiers ==
    /\ configuration.provider = "dual"
    /\ efficiencyProvider # NULL
    /\ performanceProvider # NULL
    /\ efficiencyProvider # performanceProvider
    /\ configuration.model = ""

\* C10: in dual mode with two distinct tiers, a request that reaches a provider
\* goes to the performance provider and model if and only if its complexity score
\* is greater than or equal to the configured threshold, and to the efficiency
\* provider and model otherwise.
C10_RoutedByTheConfiguredThreshold ==
    [][\A req \in Requests :
          (GenerateExplanationOf(req) /\ TwoTiers /\ Len(inflight') = Len(inflight) + 1)
          => LET call == inflight'[Len(inflight')]
                 premium == analyzeCodeComplexity(req.code, req.context, req.language)
                               >= configuration.complexityThreshold
             IN  /\ call.provider = IF premium THEN performanceProvider
                                    ELSE efficiencyProvider
                 /\ call.model = IF premium THEN configuration.performanceModel
                                 ELSE configuration.efficiencyModel]_vars

\* dual mode with exactly one of the two tier keys configured
OneTier ==
    /\ configuration.provider = "dual"
    /\ isSet(configuration.efficiencyApiKey) # isSet(configuration.performanceApiKey)

\* the request generateExplanation has just sent to a provider
Sent == inflight'[Len(inflight')]

\* C11: when only one tier is configured (dual mode, exactly one of the two tier
\* keys), every request that reaches a provider goes to that tier's provider with
\* that tier's model, whatever its complexity score.
C11_OneTierTakesEveryRequest ==
    [][\A req \in Requests :
          (GenerateExplanationOf(req) /\ OneTier /\ Len(inflight') = Len(inflight) + 1)
          => IF isSet(configuration.efficiencyApiKey)
             THEN /\ Sent.provider = OpenAIProvider(configuration.efficiencyApiKey)
                  /\ Sent.model = configuration.efficiencyModel
             ELSE /\ Sent.provider = OpenAIProvider(configuration.performanceApiKey)
                  /\ Sent.model = configuration.performanceModel]_vars

\* generateExplanation picks the tier by the complexity score
RoutedByTier ==
    /\ configuration.provider = "dual"
    /\ efficiencyProvider # NULL
    /\ performanceProvider # NULL

\* C12 (as stated): when a model override is configured (aiService.model), every
\* request that reaches a provider is issued with that model, in every provider
\* mode, dual mode with both tiers included.
C12_ConfiguredModelIsAlwaysHonoured ==
    [][\A req \in Requests :
          (GenerateExplanationOf(req) /\ isSet(configuration.model)
              /\ Len(inflight') = Len(inflight) + 1)
          => Sent.model = configuration.model]_vars

\* C12 (amended): a request that reaches a provider is issued with the configured
\* aiService.model (with 'gpt-3.5-turbo' when none is configured) exactly when it
\* is not routed by tier; in dual mode with both tier providers present it is
\* issued with the model of the tier its complexity score selects, whatever
\* aiService.model is.
C12_ConfiguredModelIsHonouredOutsideTierRouting ==
    [][\A req \in Requests :
          (GenerateExplanationOf(req) /\ Len(inflight') = Len(inflight) + 1)
          => IF RoutedByTier
             THEN Sent.model \in {configuration.efficiencyModel,
                                  configuration.performanceModel}
             ELSE Sent.model = IF isSet(configuration.model) THEN configuration.model
                               ELSE "gpt-3.5-turbo"]_vars

\* a request is in flight with the model the user configured for the one provider
C12_Witness ==
    /\ ~RoutedByTier
    /\ isSet(configuration.model)
    /\ inflight # << >>
    /\ inflight[Len(inflight)].model = configuration.model
    /\ last = Awaiting

\* C13: if the provider's generateResponse fails (non-2xx status or network error),
\* generateExplanation fails with an error that carries the provider's failure; the
\* call is not sent again, to this adapter or to the other tier's; it appends no
\* usage record and writes no cache entry.
C13_ProviderFailureIsPassedOnOnce ==
    [][\A i \in 1..Len(inflight), cause \in Causes :
          ProviderFailsOf(i, cause)
          => /\ last' = [op |-> "response", outcome |-> "error",
                          error |-> "AI request failed",
                          cause |-> providerFailure(inflight[i].provider, cause)]
             /\ inflight' = Without(inflight, i)
             /\ calls' = << >>
             /\ UNCHANGED <<usageHistory, appended, cache, written, globalState>>]_vars

\* with two distinct tiers, the one call made has failed on a network error: nothing
\* is in flight, nothing was recorded and nothing was cached
C13_Witness ==
    /\ TwoTiers
    /\ started = 1
    /\ last.op = "response"
    /\ last.outcome = "error"
    /\ last.cause.cause = "network error"
    /\ inflight = << >>
    /\ usageHistory = << >>
    /\ cache = << >>

\* the latest maxRecords records of a history
Latest(history) ==
    IF Len(history) > maxRecords
    THEN SubSeq(history, Len(history) - maxRecords + 1, Len(history))
    ELSE history

\* C14: with caching enabled, a request that misses the cache and whose provider
\* call succeeds performs, in this order and before it returns the text: one
\* provider invocation, then one recordUsage append carrying the response's cost,
\* total tokens, provider and model, then one cache set under the request's key
\* with the response text.
C14_MissInvokesThenRecordsThenCaches ==
    [][/\ \A req \in Requests :
             (GenerateExplanationOf(req) /\ configuration.enableCaching
                 /\ last' = Awaiting)
             => /\ calls' = <<"canMakeRequest", "get", "generateResponse">>
                /\ inflight' = Append(inflight, inflight'[Len(inflight')])
                /\ inflight'[Len(inflight')].key = keyOf(req)
                /\ UNCHANGED <<usageHistory, appended, written>>
       /\ \A i \in 1..Len(inflight), content \in Contents, tokens \in 0..MaxTokens :
             (ProviderRespondsOf(i, content, tokens) /\ configuration.enableCaching)
             => LET call == inflight[i]
                    response == AIResponse(call.provider, call.model, content, tokens)
                    record == [timestamp |-> now, cost |-> response.cost,
                               tokens |-> response.tokens,
                               provider |-> response.provider,
                               model |-> response.model,
                               requestType |-> "explanation"]
                IN  /\ calls' = <<"recordUsage", "set">>
                    /\ inflight' = Without(inflight, i)
                    /\ appended' = Append(appended, record)
                    /\ usageHistory' = Latest(Append(usageHistory, record))
                    /\ Cardinality({j \in 1..Len(cache') : cache'[j].key = call.key}) = 1
                    /\ EntryOf(cache', call.key) = CacheEntry(call.key, content, now)
                    /\ written'[call.key] = Some([content |-> content, at |-> now])
                    /\ last' = [op |-> "response", outcome |-> "text",
                                text |-> content]]_vars

\* a billed response has just been returned after it was recorded and then cached
C14_Witness ==
    /\ configuration.enableCaching
    /\ last.op = "response"
    /\ last.outcome = "text"
    /\ last.text = "a"
    /\ calls = <<"recordUsage", "set">>
    /\ usageHistory # << >>
    /\ usageHistory[Len(usageHistory)].cost > 0
    /\ \E j \in 1..Len(cache) : cache[j].content = "a" /\ cache[j].timestamp = now

\* dual mode with none of efficiencyApiKey, performanceApiKey, apiKey set: the
\* configuration in force yields no adapter
NoAdapterConfigured ==
    /\ configuration.provider = "dual"
    /\ ~isSet(configuration.efficiencyApiKey)
    /\ ~isSet(configuration.performanceApiKey)
    /\ ~isSet(configuration.apiKey)

C16_BudgetStopAndProviderFailureDiffer ==
    [][/\ \A i \in 1..Len(inflight), cause \in Causes :
             ProviderFailsOf(i, cause)
             => /\ last'.outcome = "error"
                /\ last'.error = "AI request failed"
                /\ last'.error # "Budget limit reached"
       /\ \A req \in Requests :
             (GenerateExplanationOf(req) /\ ProviderAvailable
                 /\ ~canMakeRequest(usageHistory, budgetLimit, now))
             => /\ last'.outcome = "error"
                /\ last'.error = "Budget limit reached"
                /\ last'.error # "AI request failed"
                /\ inflight' = inflight]_vars

\* a provider failure has arrived while the budget is used up by the billed response
\* of another call: the error is the provider failure, not the budget error
C16_Witness ==
    /\ last.op = "response"
    /\ last.outcome = "error"
    /\ last.error = "AI request failed"
    /\ usageHistory # << >>
    /\ budgetLimit > 0
    /\ BudgetSpent >= budgetLimit

\* C28: the tier comparison uses the configured complexityThreshold, 0 included:
\* in dual mode with two tiers and a configured threshold of 0, every request that
\* reaches a provider goes to the performance provider with the performance model
C28_ThresholdZeroRoutesToThePerformanceTier ==
    [][\A req \in Requests :
          (/\ GenerateExplanationOf(req)
           /\ TwoTiers
           /\ configuration.complexityThreshold = 0
           /\ Len(inflight') = Len(inflight) + 1)
          => /\ Sent.provider = performanceProvider
             /\ Sent.model = configuration.performanceModel]_vars

\* the records of the current period
BilledInPeriod == 
    SelectSeq(usageHistory, LAMBDA r : InPeriod(r, budgetPeriod, now))

\* the largest cost of one record of the current period
LargestCost ==
    CHOOSE c \in {BilledInPeriod[i].cost : i \in 1..Len(BilledInPeriod)} :
        \A i \in 1..Len(BilledInPeriod) : BilledInPeriod[i].cost <= c

\* C30: the overshoot is bounded by one request: whenever requests were billed in
\* the period, the cost of the period is below the budget limit plus the largest
\* cost of one of them, overlapping calls included
C30_OvershootIsBoundedByOneRequest ==
    BilledInPeriod # << >> => BudgetSpent < budgetLimit + LargestCost

----------------------------------------------------------------------------
(* Properties of the complexity classifier (SpecScore)                     *)

\* what the classifier measures on a code, apart from its language and context
measures(code) ==
    [length |-> strLen(code),
     nesting |-> calculateMaxNesting(code),
     lines |-> nonBlankLines(code),
     patterns |-> [i \in DOMAIN complexPatterns |-> matchCount(code, complexPatterns[i])],
     functions |-> matchCount(code, {"=>{"})]

\* every input the classifier is applied to, with its measures and its score
Measured ==
    { [of |-> measures(codeOf(shape)), context |-> context, language |-> language,
       score |-> analyzeCodeComplexity(codeOf(shape), context, language)] :
      shape \in ScoreShapes, context \in ScoreContexts, language \in ScoreLanguages }

Classified == last.op = "analyzeCodeComplexity"

\* C24: the score lies in [0,1]; a code at least as long and at least as deeply
\* nested as the classified one, with the same line count, pattern matches and
\* function count, in the same language and context, scores at least as much; and
\* the nesting counter never goes below 0, whatever closing braces the code holds
C24_ScoreIsMonotoneAndBounded ==
    Classified =>
        LET mine == measures(last.code)
            trace == nestingTrace(last.code, 0)
        IN  /\ last.score \in 0..100
            /\ \A other \in Measured :
                  (/\ other.context = last.context
                   /\ other.language = last.language
                   /\ other.of.length >= mine.length
                   /\ other.of.nesting >= mine.nesting
                   /\ other.of.lines = mine.lines
                   /\ other.of.patterns = mine.patterns
                   /\ other.of.functions = mine.functions)
                  => other.score >= last.score
            /\ \A i \in DOMAIN trace : trace[i] >= 0
            /\ \A i \in DOMAIN trace : trace[i] <= mine.nesting

\* a long, deeply nested code that starts with unmatched closing braces and
\* holds more awaits and catch clauses than the caps count is classified in the
\* costliest language and context: its factors sum to more than 1
C24_Witness ==
    /\ Classified
    /\ Len(last.code) > 1 /\ last.code[1] = "id1001" /\ last.code[2] = "}"
    /\ measures(last.code).nesting > 5
    /\ measures(last.code).patterns[1] > 5
    /\ measures(last.code).patterns[8] > 5
    /\ last.language = <<"typescript">>
    /\ last.context = <<"security">>
    /\ last.score = 100

\* C26: before the clamp each factor adds at most its documented cap; the
\* complex-construct patterns, all of them together, add at most 0.25
C26_PatternsTogetherWithinTheirCap ==
    Classified => patternScore(last.code, 1) <= 25

----------------------------------------------------------------------------
(* Properties of the cache key (SpecKeys)                                  *)

\* C17: two triples (code, context, language) get the same key if and only if their
\* codes are equal after normalization (trim, then every whitespace run collapsed
\* to one space) and their contexts and their languages are identical; triples that
\* split a text differently between code, context and language never share a key.
C17_SameKeyIffSameNormalizedTriple ==
    [][(last.op = "createCacheKey" /\ last'.op = "createCacheKey")
       => (last'.key = last.key
              <=> /\ collapseSpaces(trim(last'.code)) = collapseSpaces(trim(last.code))
                  /\ last'.context = last.context
                  /\ last'.language = last.language)]_vars

----------------------------------------------------------------------------
(* Properties of the gateway as the settings change (SpecRefresh), and of  *)
(* the rollover of the period (Spec)                                       *)

\* C22: after the configured budget limit (or period) is changed and
\* refreshConfiguration() is called, canMakeRequest() and the remaining-budget
\* statistic are computed with the new limit (and the new period window).
C22_BudgetFollowsTheRefreshedSettings ==
    LET spent == getCurrentPeriodCost(usageHistory, budgetPeriod, now)
        limit == getBudgetLimit(settings)
    IN  /\ canMakeRequest(usageHistory, budgetLimit, now) <=> spent < limit
        /\ budgetRemaining(usageHistory, budgetLimit, now)
              = IF limit > spent THEN limit - spent ELSE 0

\* C29: after refreshConfiguration() the providers generateExplanation routes to
\* are those of the new configuration alone: every request that reaches a provider
\* reaches the one a manager built from the current configuration would choose
C29_RoutingFollowsTheCurrentConfigurationAlone ==
    [][\A req \in Requests :
          (GenerateExplanationOf(req) /\ Len(inflight') = Len(inflight) + 1)
          => LET fresh == initializeProviders(configuration, NoProviders)
                 choice == selectProvider(configuration, fresh, req.code, req.context,
                                          req.language)
             IN  /\ choice # NULL
                 /\ Sent.provider = choice.provider]_vars

\* a positive budget was used up by records that now all lie outside the window
RolledOver ==
    /\ budgetLimit > 0
    /\ SumCost(usageHistory) >= budgetLimit
    /\ \A i \in 1..Len(usageHistory) : usageHistory[i].timestamp <= now - monthMs

\* the lookup of generateWithProvider finds nothing to return for this key
Miss(key) ==
    \/ ~configuration.enableCaching
    \/ ~Live(key)
    \/ EntryOf(cache, key).content = ""

\* C23: a budget stop is resolved by period rollover: once the clock has advanced so
\* that every record lies outside the rolling window, canMakeRequest() is true
\* again (for a limit > 0) and the next cache-miss request reaches the provider.
C23_RolloverReopensTheBudget ==
    [][\A req \in Requests :
          (GenerateExplanationOf(req) /\ RolledOver /\ ProviderAvailable
              /\ Miss(keyOf(req)))
          => /\ canMakeRequest(usageHistory, budgetLimit, now)
             /\ last' = Awaiting
             /\ Len(inflight') = Len(inflight) + 1
             /\ inflight'[Len(inflight')].key = keyOf(req)]_vars

\* the budget was used up, the period has rolled over and a request is on its way
\* to the provider
C23_Witness ==
    /\ RolledOver
    /\ last = Awaiting
    /\ inflight # << >>
    /\ started = 2

----------------------------------------------------------------------------
(* Properties of the gateway on a faulty storage (SpecFaults)              *)

----
(* Properties of the cache (SpecCache)                                     *)

\* C4: a set() of a key not in a cache that holds exactly maxCacheSize entries
\* removes exactly one entry, one whose lastAccessed is the smallest, also when
\* entries were created or accessed at the clock value of the set.
C4_SetAtCapacityEvictsTheLeastRecent ==
    [][\A key \in Keys, content \in Contents :
          (CacheSetOf(key, content) /\ Len(cache) = maxCacheSize
              /\ \A i \in 1..Len(cache) : cache[i].key # key)
          => \E i \in 1..Len(cache) :
                /\ \A j \in 1..Len(cache) : cache[i].lastAccessed <= cache[j].lastAccessed
                /\ cache' = Append(Without(cache, i), CacheEntry(key, content, now))]_vars

\* C5: after set(key, v), every get of that key returns v, until the entry's TTL
\* elapses, or a set evicts it, or the cache is cleared; sets and gets of other keys
\* that do not evict it do not change what it returns.
C5_GetReturnsWhatWasSet ==
    [][\A key \in Keys :
          (CacheGetOf(key) /\ written[key] # NULL
              /\ now - written[key][1].at <= maxAge)
          => last'.value = Some(written[key][1].content)]_vars

\* the second hit in a row on an entry, in a cache that holds another key too
C5_Witness ==
    /\ last.op = "get"
    /\ stats.hits = 2
    /\ Len(cache) = 2
    /\ written[last.key] # NULL
    /\ last.value = Some(written[last.key][1].content)

\* C6: a get of an entry older than maxAge deletes it, counts a miss and returns a
\* miss; a get of an entry no older than maxAge returns its content, sets
\* lastAccessed and counts the access, and leaves its creation time alone, so hits
\* do not extend its lifetime.
C6_GetHonoursTheTTL ==
    [][\A key \in Keys :
          (CacheGetOf(key) /\ \E i \in 1..Len(cache) : cache[i].key = key)
          => LET entry == EntryOf(cache, key)
             IN  IF now - entry.timestamp > maxAge
                 THEN /\ last'.value = NULL
                      /\ \A j \in 1..Len(cache') : cache'[j].key # key
                      /\ stats' = [hits |-> stats.hits, misses |-> stats.misses + 1]
                 ELSE /\ last'.value = Some(entry.content)
                      /\ \E j \in 1..Len(cache') : cache'[j].key = key
                      /\ EntryOf(cache', key) =
                            [entry EXCEPT !.lastAccessed = now,
                                          !.accessCount = entry.accessCount + 1]
                      /\ stats' = [hits |-> stats.hits + 1, misses |-> stats.misses]]_vars

\* an entry that was hit once has outlived maxAge, and a get has just missed it
C6_Witness ==
    /\ last.op = "get"
    /\ last.value = NULL
    /\ written[last.key] # NULL
    /\ now - written[last.key][1].at > maxAge
    /\ stats = [hits |-> 1, misses |-> 1]
    /\ \A j \in 1..Len(cache) : cache[j].key # last.key

\* the keys the cache holds
KeysOf(c) == {c[i].key : i \in 1..Len(c)}

\* C27: the cache never holds more than maxCacheSize entries, and a set() of a
\* key the cache already holds replaces that entry and removes no other one
C27_WithinCapacityAndOverwriteEvictsNothing ==
    /\ [](Len(cache) <= maxCacheSize)
    /\ [][\A key \in Keys, content \in Contents :
             (CacheSetOf(key, content) /\ key \in KeysOf(cache))
             => KeysOf(cache') = KeysOf(cache)]_vars

----------------------------------------------------------------------------
(* Properties of the ledger (SpecLedger)                                   *)

\* every record pushed since the last reset is of the last 30 days
AllInPeriod == \A i \in 1..Len(appended) : appended[i].timestamp > now - monthMs

\* C7 (as stated): canMakeRequest() is true if and only if the cumulative cost of
\* the records recorded inside the period is strictly below the limit: false from
\* the record that brings it to the limit on, for as long as those records stay
\* inside the period and no reset occurs.
C7_CanSpendIffBelowTheLimit ==
    AllInPeriod
    => (canMakeRequest(usageHistory, budgetLimit, now)
           <=> SumCost(appended) < budgetLimit)

\* C7 (amended): the same, for as long as, in addition, no more than maxRecords
\* (10000) records have been recorded since the last reset, so that the cap of the
\* history has dropped none of them.
C7_CanSpendIffBelowTheLimitUnderTheCap ==
    (AllInPeriod /\ Len(appended) <= maxRecords)
    => (canMakeRequest(usageHistory, budgetLimit, now)
           <=> SumCost(appended) < budgetLimit)

\* the latest of maxRecords records inside the period has brought the cost to the
\* limit, and the gate is closed
C7_Witness ==
    /\ AllInPeriod
    /\ Len(appended) = maxRecords
    /\ SumCost(SubSeq(appended, 1, maxRecords - 1)) < budgetLimit
    /\ SumCost(appended) >= budgetLimit
    /\ ~canMakeRequest(usageHistory, budgetLimit, now)

\* C8 (as stated): the current-period cost is the sum of the costs of the records
\* recordUsage appended since the last reset whose timestamp lies in the closed
\* window [now - period, now].
C8_PeriodCostOverTheClosedWindow ==
    getCurrentPeriodCost(usageHistory, budgetPeriod, now)
        = SumCost(SelectSeq(appended,
                            LAMBDA r : r.timestamp >= now - monthMs
                                       /\ r.timestamp <= now))

\* C8 (amended): the current-period cost is the sum of the costs of those among the
\* latest maxRecords (10000) records recordUsage appended since the last reset whose
\* timestamp lies in the half-open window (now - period, now].
C8_PeriodCostOverTheHalfOpenWindow ==
    LET first == IF Len(appended) > maxRecords THEN Len(appended) - maxRecords + 1
                 ELSE 1
    IN  getCurrentPeriodCost(usageHistory, budgetPeriod, now)
            = SumCost(SelectSeq(SubSeq(appended, first, Len(appended)),
                                LAMBDA r : r.timestamp > now - monthMs
                                           /\ r.timestamp <= now))

\* a billed record sits exactly at the start of the window, another inside it
C8_Witness ==
    /\ \E i \in 1..Len(appended) :
          appended[i].timestamp = now - monthMs /\ appended[i].cost > 0
    /\ getCurrentPeriodCost(usageHistory, budgetPeriod, now) > 0

\* C18 (as stated): after any sequence of recordUsage calls, every record appended
\* since the last reset is still present, unchanged and in append order:
\* recordUsage never removes or alters an earlier record.
C18_EveryAppendedRecordIsKept ==
    /\ usageHistory = appended
    /\ globalState.usageHistory = appended

\* C18 (amended): after any sequence of recordUsage calls, the history is, in
\* memory and in storage, the latest maxRecords (10000) of the records appended
\* since the last reset, unchanged and in append order: recordUsage removes the
\* oldest records beyond the cap and nothing else.
C18_TheLatestAppendedRecordsAreKept ==
    /\ usageHistory = Latest(appended)
    /\ globalState.usageHistory = Latest(appended)

\* one record more than the cap has been appended: the oldest is gone, the others
\* are there in append order
C18_Witness ==
    /\ Len(appended) = maxRecords + 1
    /\ usageHistory = Tail(appended)
    /\ appended[1] # appended[2]

----------------------------------------------------------------------------
(* Properties of resetBudget (SpecReset)                                   *)

\* C19: resetBudget in 'clear' mode leaves an empty history in memory and in
\* storage and creates no archive; in 'archive' mode it first stores a snapshot of
\* exactly the records present before the reset under a key made of the time, then
\* empties the history; later recordUsage calls do not change a stored snapshot;
\* after either mode the current-period cost is 0.
C19_ResetEmptiesAndArchivesTheHistory ==
    [][/\ ResetBudget
          => /\ usageHistory' = << >>
             /\ globalState'.usageHistory = << >>
             /\ getCurrentPeriodCost(usageHistory', budgetPeriod, now') = 0
             /\ IF configGet(settings, "budgetResetType", "clear") = "clear"
                THEN globalState'.archives = globalState.archives
                ELSE /\ [key |-> now, records |-> usageHistory]
                            \in globalState'.archives
                     /\ \A a \in globalState'.archives :
                           a.key = now => a.records = usageHistory
                     /\ \A a \in globalState.archives :
                           a.key # now => a \in globalState'.archives
       /\ \A cost \in 0..MaxCost :
             RecordUsageOf(cost) => globalState'.archives = globalState.archives]_vars

\* in 'archive' mode a reset has stored a snapshot of billed records, and a record
\* appended since has left the snapshot as it was
C19_Witness ==
    /\ configGet(settings, "budgetResetType", "clear") = "archive"
    /\ usageHistory # << >>
    /\ \E a \in globalState.archives :
          /\ a.records # << >>
          /\ a.records # usageHistory
          /\ SumCost(a.records) > 0

----------------------------------------------------------------------------
(* Properties of the construction of the ledger (SpecStartup)              *)

\* C20: after CostTracker construction the history in memory holds exactly the
\* persisted records whose timestamp is newer than now - 180 days, in their order:
\* every older record is removed and no newer one; when at least one record was
\* removed the purged history is written back to storage, and storage is left
\* alone otherwise.
C20_ConstructionKeepsTheLast180Days ==
    [][Construct
       => LET persisted == globalState.usageHistory
              purged == SelectSeq(persisted,
                                  LAMBDA r : r.timestamp > now - sixMonthsMs)
          IN  /\ usageHistory' = purged
              /\ \A i \in 1..Len(persisted) :
                    persisted[i].timestamp <= now - sixMonthsMs
                    => \A j \in 1..Len(usageHistory') :
                          usageHistory'[j].timestamp # persisted[i].timestamp
              /\ IF Len(purged) < Len(persisted)
                 THEN globalState' = [globalState EXCEPT !.usageHistory = purged]
                 ELSE globalState' = globalState]_vars

\* a later construction has found records of earlier sessions and of this one, has
\* removed some and kept the newer ones, and the purged history is the one in storage
C20_Witness ==
    /\ last.op = "construct"
    /\ last.loaded > MaxPersisted
    /\ last.removed > 0
    /\ last.loaded - last.removed = Len(usageHistory)
    /\ usageHistory # << >>
    /\ globalState.usageHistory = usageHistory
    /\ \A i \in 1..Len(usageHistory) : usageHistory[i].timestamp > now - sixMonthsMs

----------------------------------------------------------------------------
(* Properties of overlapping calls (Spec)                                  *)

\* the usage record of a response to a call in flight
RecordOf(call, content, tokens) ==
    LET response == AIResponse(call.provider, call.model, content, tokens)
    IN  UsageRecord(now, response.cost, response.tokens, response.provider,
                    response.model)

\* C25 (as stated): whatever else is in flight, a successful response adds exactly
\* its usage record to the ledger, which loses and alters nothing, and the cache
\* then holds the response's text for the key of the request and still holds an
\* entry for every key it held
C25_EveryResponseIsRecordedAndEveryKeyStaysCached ==
    [][\A i \in 1..Len(inflight), content \in Contents, tokens \in 0..MaxTokens :
          ProviderRespondsOf(i, content, tokens)
          => /\ usageHistory' = Append(usageHistory, RecordOf(inflight[i], content, tokens))
             /\ KeysOf(cache) \subseteq KeysOf(cache')
             /\ inflight[i].key \in KeysOf(cache')
             /\ EntryOf(cache', inflight[i].key).content = content]_vars

\* every entry of the cache is the text, and has the time, of the latest response
\* to a request of its key, one entry a key
CacheHoldsTheLatestResponses ==
    /\ \A i \in 1..Len(cache) :
          written[cache[i].key]
             = Some([content |-> cache[i].content, at |-> cache[i].timestamp])
    /\ \A i, j \in 1..Len(cache) : cache[i].key = cache[j].key => i = j

\* C25 (amended): the ledger is the latest maxRecords of the records of the
\* responses, one a response, in the order of the responses and unaltered; every
\* entry of the cache is the text of the latest response to its key; and a
\* response that arrives while other calls are in flight adds its record, stores
\* its text under its key when caching is enabled (and leaves the cache alone
\* when it is not), and leaves the other calls in flight
C25_OverlappingCallsKeepTheLedgerAndTheCacheSound ==
    /\ [](usageHistory = Latest(appended) /\ CacheHoldsTheLatestResponses)
    /\ [][\A i \in 1..Len(inflight), content \in Contents, tokens \in 0..MaxTokens :
             (ProviderRespondsOf(i, content, tokens) /\ Len(inflight) > 1)
             => /\ appended' = Append(appended, RecordOf(inflight[i], content, tokens))
                /\ usageHistory' = Latest(Append(usageHistory,
                                                 RecordOf(inflight[i], content, tokens)))
                /\ IF configuration.enableCaching
                   THEN /\ inflight[i].key \in KeysOf(cache')
                        /\ EntryOf(cache', inflight[i].key).content = content
                   ELSE cache' = cache
                /\ inflight' = Without(inflight, i)]_vars

\* two calls for one key overlapped (the first response used the budget up, the
\* second was recorded at the same time) and both were answered: both records are
\* in the ledger, and the cache holds one entry, the text of the second response
C25_Witness ==
    /\ inflight = << >>
    /\ configuration.enableCaching
    /\ Len(usageHistory) = 2
    /\ budgetLimit > 0
    /\ usageHistory[1].cost >= budgetLimit
    /\ usageHistory[1].timestamp = usageHistory[2].timestamp
    /\ Len(cache) = 1
    /\ cache[1].content = "a"
    /\ last = [op |-> "response", outcome |-> "text", text |-> "a"]

====
